---- MODULE Spec2Model ----
(***************************************************************************)
(* A model of git2edx's configuration loader, get_config() in              *)
(* src/git2edx/config.py: the environment is read, a YAML document is      *)
(* taken from the caller or discovered on disk, it is laid over the        *)
(* environment's settings, and the studio entries are validated.           *)
(*                                                                         *)
(* Python objects are tagged records, so that Python's truth test (None,   *)
(* "", {}, [] and False are false) is modelled as the interpreter does     *)
(* it.  A dict looked up by key only is a TLA+ function from its keys; the *)
(* `studios` dict, which the code iterates, is the sequence of its items   *)
(* in iteration order.                                                     *)
(***************************************************************************)
EXTENDS Naturals, Sequences, FiniteSets, TLC

VARIABLES
    environ,                \* os.environ.get(name) for the GIT2EDX_ names
    fs,                     \* the file system: what open/parse of a path does
    arg,                    \* the yaml_config argument as the caller passed it
    yaml_config,            \* the local yaml_config (the caller's object if kept)
    config,                 \* the local config dict
    environ_studio_config,  \* the local environ_studio_config dict
    alias,                  \* which object config["studios"]'s entries are
    loc_i,                  \* position of `for loc in yaml_locations`
    opened,                 \* the paths handed to open(), in order
    k,                      \* position of `for name, studio in ...items()`
    pc,                     \* where get_config is
    result                  \* the returned dict, or the exception raised

vars == <<environ, fs, arg, yaml_config, config, environ_studio_config,
          alias, loc_i, opened, k, pc, result>>

----------------------------------------------------------------------------
(* Python values *)

None == [type |-> "NoneType"]

Str(s) == [type |-> "str", val |-> s]

Bool(b) == [type |-> "bool", val |-> b]

List(q) == [type |-> "list", val |-> q]

Dict(f) == [type |-> "dict", val |-> f]

\* Python's truth value of an object (`if x:` / `not x`).
Truthy(o) ==
    CASE o.type = "NoneType" -> FALSE
      [] o.type = "str"      -> o.val # ""
      [] o.type = "bool"     -> o.val
      [] OTHER               -> DOMAIN o.val # {}

\* d[key] = v on a dict held as a function.
SetItem(d, key, v) ==
    [x \in DOMAIN d \cup {key} |-> IF x = key THEN v ELSE d[x]]

\* Update with the precedence reversed: a key d already has keeps d's value.
Update_KeepingOld(d, e) ==
    [x \in DOMAIN d \cup DOMAIN e |-> IF x \in DOMAIN d THEN d[x] ELSE e[x]]

\* d.update(e): every key of e is set in d to e's value (a reference copy).
Update(d, e) ==
    [x \in DOMAIN d \cup DOMAIN e |-> IF x \in DOMAIN e THEN e[x] ELSE d[x]]

\* del d[key], used to build documents that lack a key.
Remove(d, key) == [x \in DOMAIN d \ {key} |-> d[x]]

----------------------------------------------------------------------------
(* Bounds and input domains *)

\* The largest number of studio entries in a caller-supplied document.
MaxStudios == 2

\* The names of the studio entries of a document, by position.
StudioNames == <<"edx", "mitx", "local", "sandbox">>

StudioKeys == {"url", "email", "password", "default"}

DefaultStudioUrl == "https://studio.edx.org"

EnvironStudioName == "ENVIRON_VARS"

CustomPath == "/srv/git2edx/custom.yml"

CwdPath == "./git2edx.env.yml"

HomePath == "~/.git2edx.env.yml"

EtcPath == "/etc/git2edx.env.yml"

Paths == {CustomPath, CwdPath, HomePath, EtcPath}

EnvNames == {"GIT2EDX_CONFIG_FILE", "GIT2EDX_DEFAULT_SECRET", "GIT2EDX_COURSE_DIR",
             "GIT2EDX_STUDIO_URL", "GIT2EDX_STUDIO_EMAIL", "GIT2EDX_STUDIO_PASSWORD"}

\* Studio entries with all four keys, each value empty (null) or set.
FullStudios ==
    [url : {None, Str("https://studio.example.org")},
     email : {None, Str("staff@example.org")},
     password : {None, Str("hunter2")},
     default : {Bool(TRUE), Bool(FALSE)}]

CompleteStudio ==
    [url |-> None, email |-> Str("staff@example.org"),
     password |-> Str("hunter2"), default |-> Bool(TRUE)]

\* Studio entries that lack one key.
PartialStudios == {Remove(CompleteStudio, key) : key \in StudioKeys}

StudioEntries == FullStudios \cup PartialStudios

\* The `studios` mappings of n entries, as their items in iteration order.
StudiosOfLen(n) ==
    {[j \in 1..n |-> [name |-> StudioNames[j], studio |-> f[j]]] :
        f \in [1..n -> StudioEntries]}

StudioMappings == UNION {StudiosOfLen(n) : n \in 0..MaxStudios}

Course == "mitx/8.01x"

\* Caller-supplied documents: `studios` absent, null or a mapping; `courses`
\* absent, empty or not; with or without other top-level keys.
StudiosPart ==
    {<<>>} \cup {[studios |-> None]} \cup {[studios |-> Dict(m)] : m \in StudioMappings}

CoursesPart ==
    {<<>>, [courses |-> List(<<>>)], [courses |-> List(<<Course>>)]}

OtherPart ==
    {<<>>, [default_studios |-> List(<<"bogus">>), default_secret |-> Str("yaml-secret")]}

PreparsedDocs ==
    {Dict(s @@ c @@ o) : s \in StudiosPart, c \in CoursesPart, o \in OtherPart}

\* What the file at each path holds when it parses to a mapping.
FileDoc(path) ==
    CASE path = CustomPath ->
            Dict([studios |-> Dict(<<[name |-> "custom",
                                      studio |-> [url |-> Str("https://custom.example.org"),
                                                  email |-> Str("custom@example.org"),
                                                  password |-> Str("c-pass"),
                                                  default |-> Bool(TRUE)]]>>),
                  default_secret |-> Str("custom-secret"),
                  default_studios |-> List(<<"bogus">>)])
      [] path = CwdPath ->
            Dict([studios |-> Dict(<<[name |-> "cwd",
                                      studio |-> [url |-> None,
                                                  email |-> Str("cwd@example.org"),
                                                  password |-> Str("w-pass"),
                                                  default |-> Bool(TRUE)]]>>)])
      [] path = HomePath ->
            Dict([studios |-> Dict(<<[name |-> "home",
                                      studio |-> [url |-> None,
                                                  email |-> Str("home@example.org"),
                                                  password |-> Str("h-pass"),
                                                  default |-> Bool(FALSE)]]>>),
                  courses |-> List(<<Course>>)])
      [] OTHER ->
            Dict([courses |-> List(<<Course>>), default_secret |-> Str("etc-secret")])

\* ENOENT: no such file; EACCES: the file exists and cannot be read;
\* malformed: it opens and is not YAML; empty: it parses to null.
FileStates == {"ENOENT", "EACCES", "malformed", "empty", "mapping"}

\* os.environ as the six lookups get_config makes of it.
MakeEnviron(file, secret, dir, url, email, password) ==
    [n \in EnvNames |->
        CASE n = "GIT2EDX_CONFIG_FILE"    -> file
          [] n = "GIT2EDX_DEFAULT_SECRET" -> secret
          [] n = "GIT2EDX_COURSE_DIR"     -> dir
          [] n = "GIT2EDX_STUDIO_URL"     -> url
          [] n = "GIT2EDX_STUDIO_EMAIL"   -> email
          [] OTHER                        -> password]

\* The environments of a call that searches the files: each variable unset
\* (None) or set, the path and the email also set to "".
Environs ==
    {MakeEnviron(file, secret, dir, url, email, password) :
        file \in {None, Str(""), Str(CustomPath)},
        secret \in {None, Str("env-secret")},
        dir \in {None, Str("/var/courses")},
        url \in {None, Str("https://env.example.org")},
        email \in {None, Str(""), Str("a@b.com")},
        password \in {None, Str("secret")}}

\* The file systems: any state at each path.  The custom path matters only
\* to an environment that names it.
FileSystems(e) ==
    {f \in [Paths -> FileStates] :
        e["GIT2EDX_CONFIG_FILE"] # Str(CustomPath) => f[CustomPath] = "ENOENT"}

\* The environments of a call given a document: the studio credentials both
\* set or not, the custom path named.
SuppliedEnvirons ==
    {MakeEnviron(Str(CustomPath), Str("env-secret"), Str("/var/courses"), None,
                 email, password) :
        email \in {None, Str("a@b.com")}, password \in {None, Str("secret")}}

\* The file system of a call given a document: a file that parses at every
\* candidate path, so that a search of the files would find one.
SuppliedFileSystems ==
    {[p \in Paths |-> "mapping"]}

----------------------------------------------------------------------------
(* The steps of get_config *)

\* G2EConfigException.__init__: the message with the pointer to the example.
G2EConfigException(message) ==
    [exception |-> "G2EConfigException",
     message |-> message \o "\nPlease see the example file (git2edx.env.example.yml) "
                        \o "for a detailed configuration walkthrough."]

\* An exception get_config does not raise itself and does not catch.
Uncaught(exception, detail) == [exception |-> exception, message |-> detail]

\* `if not yaml_config:` -- whether the files are searched.
DiscoveryNeeded(y) == ~Truthy(y)

\* The list with the working directory's file ahead of the named one.
yaml_locations_CwdFirst(c) ==
    <<Str(CwdPath), c["yaml_config_location"], Str(HomePath), Str(EtcPath)>>

\* The candidate paths, in the order of the list.
yaml_locations(c) ==
    <<c["yaml_config_location"], Str(CwdPath), Str(HomePath), Str(EtcPath)>>

\* An `except` that passes a missing file only.
RaisesIOError_OnlyMissing(state) == state = "ENOENT"

\* open(loc) raises IOError: the file is missing or cannot be opened/read.
RaisesIOError(state) == state \in {"ENOENT", "EACCES"}

\* yaml.load raises a YAMLError, which `except IOError` does not catch.
RaisesYAMLError(state) == state = "malformed"

\* yaml.load(open(loc)) when it returns: null for an empty document.
Load(path) == IF fs[path] = "empty" THEN None ELSE FileDoc(path)

\* A reset that keeps a default_studios the document brought.
ResetDefaults_IfAbsent(c) ==
    IF "default_studios" \in DOMAIN c THEN c ELSE SetItem(c, "default_studios", List(<<>>))

\* `config["default_studios"] = []`
ResetDefaults(c) == SetItem(c, "default_studios", List(<<>>))

\* The test with `or` for `and`.
EnvironStudioUsable_EitherSet(e) == Truthy(e["email"]) \/ Truthy(e["password"])

\* `environ_studio_config["email"] and environ_studio_config["password"]`
EnvironStudioUsable(e) == Truthy(e["email"]) /\ Truthy(e["password"])

\* The conditional expression with its branches exchanged.
MissingEntry_Swapped(s) == IF Truthy(s["email"]) THEN "email" ELSE "password"

\* `"password" if studio["email"] else "email"`
MissingEntry(s) == IF Truthy(s["email"]) THEN "password" ELSE "email"

\* The message of the exception for an incomplete studio.
IncompleteMessage(name, s) ==
    "The \"" \o name \o "\" studio configuration has no " \o MissingEntry(s) \o " entry!"

\* The loop body without the url default.
WithDefaultUrl_Never(s) == s

\* `if not studio["url"]: studio["url"] = "https://studio.edx.org"`
WithDefaultUrl(s) ==
    IF ~Truthy(s["url"]) THEN SetItem(s, "url", Str(DefaultStudioUrl)) ELSE s

\* The loop body's subscripts in evaluation order: the first key it needs
\* and the entry lacks ("" if none), given how far the body gets.
KeyErrorAt(s) ==
    IF "email" \notin DOMAIN s THEN "email"
    ELSE IF ~Truthy(s["email"]) THEN ""
    ELSE IF "password" \notin DOMAIN s THEN "password"
    ELSE IF ~Truthy(s["password"]) THEN ""
    ELSE IF "url" \notin DOMAIN s THEN "url"
    ELSE IF "default" \notin DOMAIN s THEN "default"
    ELSE ""

\* `if not studio["email"] or not studio["password"]`
Incomplete(s) == ~Truthy(s["email"]) \/ ~Truthy(s["password"])

\* The items of config["studios"].
Items(c) == c["studios"].val

\* studio[key] = v as config sees it: item n of config["studios"] is s.
Stored(c, n, s) ==
    SetItem(c, "studios", Dict([Items(c) EXCEPT ![n].studio = s]))

\* The same store as the other holders of the entry see it: config.update
\* copied a reference, so the document's `studios` is config's, and the
\* environment's studio is the one object put under "ENVIRON_VARS".
StoredElsewhere(n, s) ==
    /\ yaml_config' = IF alias = "yaml"
                      THEN Dict(Stored(yaml_config.val, n, s))
                      ELSE yaml_config
    /\ environ_studio_config' = IF alias = "environ" THEN s ELSE environ_studio_config

\* `config["default_studios"].append(name)` when the entry's default is true.
AppendDefault(c, name, s) ==
    IF Truthy(s["default"])
    THEN SetItem(c, "default_studios", List(Append(c["default_studios"].val, name)))
    ELSE c

----------------------------------------------------------------------------
(* The state machine *)

Init ==
    /\ \/ /\ arg \in PreparsedDocs
          /\ environ \in SuppliedEnvirons
          /\ fs \in SuppliedFileSystems
       \/ /\ arg \in {None, Dict(<<>>)}
          /\ environ \in Environs
          /\ fs \in FileSystems(environ)
    /\ yaml_config = arg
    /\ config = <<>>
    /\ environ_studio_config = <<>>
    /\ alias = "none"
    /\ loc_i = 1
    /\ opened = <<>>
    /\ k = 1
    /\ pc = "call"
    /\ result = None

\* Lines 37-54: the two dicts are built from the environment.
ReadEnvironment ==
    /\ pc = "call"
    /\ config' = [yaml_config_location |-> environ["GIT2EDX_CONFIG_FILE"],
                  default_secret |-> environ["GIT2EDX_DEFAULT_SECRET"],
                  course_directory |-> environ["GIT2EDX_COURSE_DIR"],
                  studios |-> None,
                  courses |-> None]
    /\ environ_studio_config' = [url |-> environ["GIT2EDX_STUDIO_URL"],
                                 email |-> environ["GIT2EDX_STUDIO_EMAIL"],
                                 password |-> environ["GIT2EDX_STUDIO_PASSWORD"],
                                 default |-> Bool(TRUE)]
    /\ pc' = IF DiscoveryNeeded(yaml_config) THEN "discover" ELSE "update"
    /\ UNCHANGED <<environ, fs, arg, yaml_config, alias, loc_i, opened, k, result>>

\* Line 62: `if loc:` is false, the candidate is passed over.
SkipLocation ==
    /\ pc = "discover"
    /\ loc_i <= Len(yaml_locations(config))
    /\ ~Truthy(yaml_locations(config)[loc_i])
    /\ loc_i' = loc_i + 1
    /\ UNCHANGED <<environ, fs, arg, yaml_config, config, environ_studio_config,
                   alias, opened, k, pc, result>>

\* Lines 65-68: open(loc) raises IOError, which is passed.
OpenFails ==
    /\ pc = "discover"
    /\ loc_i <= Len(yaml_locations(config))
    /\ LET loc == yaml_locations(config)[loc_i] IN
        /\ Truthy(loc)
        /\ RaisesIOError(fs[loc.val])
        /\ opened' = Append(opened, loc.val)
    /\ loc_i' = loc_i + 1
    /\ UNCHANGED <<environ, fs, arg, yaml_config, config, environ_studio_config,
                   alias, k, pc, result>>

\* Line 65: yaml.load raises, and nothing catches it.
LoadFails ==
    /\ pc = "discover"
    /\ loc_i <= Len(yaml_locations(config))
    /\ LET loc == yaml_locations(config)[loc_i] IN
        /\ Truthy(loc)
        /\ ~RaisesIOError(fs[loc.val])
        /\ RaisesYAMLError(fs[loc.val])
        /\ opened' = Append(opened, loc.val)
        /\ result' = Uncaught("YAMLError", loc.val)
    /\ pc' = "raised"
    /\ UNCHANGED <<environ, fs, arg, yaml_config, config, environ_studio_config,
                   alias, loc_i, k>>

\* Lines 65, 69-71: the file is parsed and the loop is left.
LoadSucceeds ==
    /\ pc = "discover"
    /\ loc_i <= Len(yaml_locations(config))
    /\ LET loc == yaml_locations(config)[loc_i] IN
        /\ Truthy(loc)
        /\ ~RaisesIOError(fs[loc.val])
        /\ ~RaisesYAMLError(fs[loc.val])
        /\ opened' = Append(opened, loc.val)
        /\ yaml_config' = Load(loc.val)
    /\ pc' = "update"
    /\ UNCHANGED <<environ, fs, arg, config, environ_studio_config,
                   alias, loc_i, k, result>>

\* Line 61: the list is exhausted.
LocationsExhausted ==
    /\ pc = "discover"
    /\ loc_i > Len(yaml_locations(config))
    /\ pc' = "update"
    /\ UNCHANGED <<environ, fs, arg, yaml_config, config, environ_studio_config,
                   alias, loc_i, opened, k, result>>

\* Lines 72-75: the document is laid over config; default_studios is reset.
UpdateConfig ==
    /\ pc = "update"
    /\ config' = ResetDefaults(IF Truthy(yaml_config)
                                THEN Update(config, yaml_config.val)
                                ELSE config)
    /\ alias' = IF Truthy(yaml_config) /\ "studios" \in DOMAIN yaml_config.val
                THEN "yaml" ELSE "none"
    /\ pc' = "studios"
    /\ UNCHANGED <<environ, fs, arg, yaml_config, environ_studio_config,
                   loc_i, opened, k, result>>

\* Lines 78-83: no studios, and the environment's studio stands in.
UseEnvironStudio ==
    /\ pc = "studios"
    /\ ~Truthy(config["studios"])
    /\ EnvironStudioUsable(environ_studio_config)
    /\ config' = SetItem(config, "studios",
                         Dict(<<[name |-> EnvironStudioName,
                                 studio |-> environ_studio_config]>>))
    /\ alias' = "environ"
    /\ pc' = "validate"
    /\ UNCHANGED <<environ, fs, arg, yaml_config, environ_studio_config,
                   loc_i, opened, k, result>>

\* Lines 78-87: no studios, and the environment has no usable one.
RaiseNoStudio ==
    /\ pc = "studios"
    /\ ~Truthy(config["studios"])
    /\ ~EnvironStudioUsable(environ_studio_config)
    /\ config' = SetItem(config, "studios", Dict(<<>>))
    /\ alias' = "none"
    /\ result' = G2EConfigException("Couldn't find any studio account configuration!")
    /\ pc' = "raised"
    /\ UNCHANGED <<environ, fs, arg, yaml_config, environ_studio_config,
                   loc_i, opened, k>>

\* Line 78: the document's studios are kept.
KeepStudios ==
    /\ pc = "studios"
    /\ Truthy(config["studios"])
    /\ pc' = "validate"
    /\ UNCHANGED <<environ, fs, arg, yaml_config, config, environ_studio_config,
                   alias, loc_i, opened, k, result>>

\* Lines 89-100: a subscript of the entry raises KeyError.  The url has
\* been stored by then if the missing key is "default".
RaiseKeyError ==
    /\ pc = "validate"
    /\ k <= Len(Items(config))
    /\ LET s == Items(config)[k].studio IN
        /\ KeyErrorAt(s) # ""
        /\ IF KeyErrorAt(s) = "default"
           THEN /\ config' = Stored(config, k, WithDefaultUrl(s))
                /\ StoredElsewhere(k, WithDefaultUrl(s))
           ELSE UNCHANGED <<config, yaml_config, environ_studio_config>>
        /\ result' = Uncaught("KeyError", KeyErrorAt(s))
    /\ pc' = "raised"
    /\ UNCHANGED <<environ, fs, arg, alias, loc_i, opened, k>>

\* Lines 89-95: the entry has no email or no password.
RaiseIncomplete ==
    /\ pc = "validate"
    /\ k <= Len(Items(config))
    /\ LET item == Items(config)[k] IN
        /\ KeyErrorAt(item.studio) = ""
        /\ Incomplete(item.studio)
        /\ result' = G2EConfigException(IncompleteMessage(item.name, item.studio))
    /\ pc' = "raised"
    /\ UNCHANGED <<environ, fs, arg, yaml_config, config, environ_studio_config,
                   alias, loc_i, opened, k>>

\* Lines 89-101: the entry is complete; its url is defaulted and its name
\* joins default_studios if it is a default.
AcceptStudio ==
    /\ pc = "validate"
    /\ k <= Len(Items(config))
    /\ LET item == Items(config)[k] IN
        /\ KeyErrorAt(item.studio) = ""
        /\ ~Incomplete(item.studio)
        /\ config' = AppendDefault(Stored(config, k, WithDefaultUrl(item.studio)),
                                   item.name, item.studio)
        /\ StoredElsewhere(k, WithDefaultUrl(item.studio))
    /\ k' = k + 1
    /\ UNCHANGED <<environ, fs, arg, alias, loc_i, opened, pc, result>>

\* The test without the inner `if not config["courses"]`.
NoDefaultStudio_IgnoringCourses(c) == ~Truthy(c["default_studios"])

\* `if not config["default_studios"]: if not config["courses"]:`
NoDefaultStudio(c) == ~Truthy(c["default_studios"]) /\ ~Truthy(c["courses"])

\* Lines 102-108: no default studio and no course entries.
RaiseNoDefault ==
    /\ pc = "validate"
    /\ k > Len(Items(config))
    /\ NoDefaultStudio(config)
    /\ result' = G2EConfigException(
                    "Because there are no course configuration entries, at least "
                    \o "one studio configuration must be marked as default!")
    /\ pc' = "raised"
    /\ UNCHANGED <<environ, fs, arg, yaml_config, config, environ_studio_config,
                   alias, loc_i, opened, k>>

\* Line 115: config is returned.
Return ==
    /\ pc = "validate"
    /\ k > Len(Items(config))
    /\ ~NoDefaultStudio(config)
    /\ result' = Dict(config)
    /\ pc' = "returned"
    /\ UNCHANGED <<environ, fs, arg, yaml_config, config, environ_studio_config,
                   alias, loc_i, opened, k>>

Next ==
    \/ ReadEnvironment
    \/ SkipLocation
    \/ OpenFails
    \/ LoadFails
    \/ LoadSucceeds
    \/ LocationsExhausted
    \/ UpdateConfig
    \/ UseEnvironStudio
    \/ RaiseNoStudio
    \/ KeepStudios
    \/ RaiseKeyError
    \/ RaiseIncomplete
    \/ AcceptStudio
    \/ RaiseNoDefault
    \/ Return

Spec == Init /\ [][Next]_vars

----------------------------------------------------------------------------
(* Vocabulary of the properties *)

Finished == pc \in {"returned", "raised"}

\* The configuration errors by the names the specification gives them.
NoStudioConfigured ==
    [exception |-> "G2EConfigException",
     message |-> "Couldn't find any studio account configuration!\n"
                 \o "Please see the example file (git2edx.env.example.yml) "
                 \o "for a detailed configuration walkthrough."]

IncompleteStudioConfig(name, field) ==
    [exception |-> "G2EConfigException",
     message |-> "The \"" \o name \o "\" studio configuration has no " \o field
                 \o " entry!\nPlease see the example file (git2edx.env.example.yml) "
                 \o "for a detailed configuration walkthrough."]

NoDefaultStudioError ==
    [exception |-> "G2EConfigException",
     message |-> "Because there are no course configuration entries, at least one "
                 \o "studio configuration must be marked as default!\n"
                 \o "Please see the example file (git2edx.env.example.yml) "
                 \o "for a detailed configuration walkthrough."]

Last(q) == q[Len(q)]

\* The candidate paths of the search, from the environment alone.
Candidates ==
    LET file == environ["GIT2EDX_CONFIG_FILE"] IN
    (IF file.type = "str" /\ file.val # "" THEN <<file.val>> ELSE <<>>)
        \o <<CwdPath, HomePath, EtcPath>>

\* The document the call works from, as it was before the call: the
\* caller's, else the one parsed from the last file opened, else none.
InputDoc ==
    IF arg.type = "dict" /\ DOMAIN arg.val # {} THEN arg
    ELSE IF opened # <<>> /\ fs[Last(opened)] = "mapping" THEN FileDoc(Last(opened))
    ELSE None

\* The items of the input document's `studios`, <<>> if it has none.
InputStudios ==
    IF InputDoc.type = "dict" /\ "studios" \in DOMAIN InputDoc.val
       /\ InputDoc.val["studios"].type = "dict"
    THEN InputDoc.val["studios"].val
    ELSE <<>>

\* An input value that is empty: null or "".
Empty(o) == o.type = "NoneType" \/ (o.type = "str" /\ o.val = "")

HasAllKeys(s) == StudioKeys \subseteq DOMAIN s

\* A studio entry with every key and with credentials.
WellFormed(s) == HasAllKeys(s) /\ ~Empty(s["email"]) /\ ~Empty(s["password"])

MarkedDefault(s) == "default" \in DOMAIN s /\ s["default"] = Bool(TRUE)

NamesOf(items) == [n \in 1..Len(items) |-> items[n].name]

\* `courses` of the input document is absent or empty.
NoCourses ==
    \/ InputDoc.type # "dict"
    \/ "courses" \notin DOMAIN InputDoc.val
    \/ InputDoc.val["courses"] \in {None, List(<<>>)}

\* The search ended without a document: every file opened was missing,
\* unreadable or empty, and the caller gave none.
NoDocument ==
    /\ pc \notin {"call", "discover"}
    /\ InputDoc = None
    /\ \A i \in 1..Len(opened) : fs[opened[i]] # "malformed"

EnvironHasCredentials ==
    /\ ~Empty(environ["GIT2EDX_STUDIO_EMAIL"])
    /\ ~Empty(environ["GIT2EDX_STUDIO_PASSWORD"])

----------------------------------------------------------------------------
(* C1 *)

\* The studio the environment describes, as a successful call returns it.
EnvironStudioReturned ==
    [url |-> IF Empty(environ["GIT2EDX_STUDIO_URL"])
             THEN Str("https://studio.edx.org")
             ELSE environ["GIT2EDX_STUDIO_URL"],
     email |-> environ["GIT2EDX_STUDIO_EMAIL"],
     password |-> environ["GIT2EDX_STUDIO_PASSWORD"],
     default |-> Bool(TRUE)]

\* C1: when no YAML document is supplied or discovered, get_config succeeds
\* if and only if the environment's studio email and password are both
\* non-empty; it then returns exactly one studio, "ENVIRON_VARS", with the
\* environment's email and password, default true, the url defaulted to
\* https://studio.edx.org when GIT2EDX_STUDIO_URL is unset, and
\* default_studios = ["ENVIRON_VARS"]; otherwise it raises the
\* no-studio-configured error.
C1_EnvironFallback ==
    (Finished /\ NoDocument) =>
        IF EnvironHasCredentials
        THEN /\ pc = "returned"
             /\ result.val["studios"] =
                    Dict(<<[name |-> "ENVIRON_VARS", studio |-> EnvironStudioReturned]>>)
             /\ result.val["default_studios"] = List(<<"ENVIRON_VARS">>)
        ELSE /\ pc = "raised"
             /\ result = NoStudioConfigured

C1_Witness ==
    /\ pc = "returned"
    /\ NoDocument
    /\ arg = None
    /\ Len(opened) = 4
    /\ environ["GIT2EDX_STUDIO_URL"] = None

----------------------------------------------------------------------------
(* C2 *)

\* C2 as claimed, on documents whose entries have all four keys: every
\* studio with an empty email makes get_config raise the incomplete-studio
\* error naming it and "email", and every studio with an email and an empty
\* password makes it raise the error naming it and "password".
C2_AnyIncompleteStudioIsNamed ==
    (Finished /\ \A n \in 1..Len(InputStudios) : HasAllKeys(InputStudios[n].studio)) =>
        \A n \in 1..Len(InputStudios) :
            LET name == InputStudios[n].name
                s == InputStudios[n].studio
            IN  /\ Empty(s["email"]) => result = IncompleteStudioConfig(name, "email")
                /\ (~Empty(s["email"]) /\ Empty(s["password"])) =>
                        result = IncompleteStudioConfig(name, "password")

\* C2, amended: a studio with an empty email (or with an email and an empty
\* password) makes get_config raise the incomplete-studio error naming it
\* and "email" (or "password"), provided every studio before it in
\* iteration order has all four keys and a non-empty email and password.
C2_FirstIncompleteStudioIsNamed ==
    Finished =>
        \A n \in 1..Len(InputStudios) :
            LET name == InputStudios[n].name
                s == InputStudios[n].studio
            IN  (\A m \in 1..(n - 1) : WellFormed(InputStudios[m].studio)) =>
                    /\ ("email" \in DOMAIN s /\ Empty(s["email"])) =>
                            result = IncompleteStudioConfig(name, "email")
                    /\ ({"email", "password"} \subseteq DOMAIN s
                            /\ ~Empty(s["email"]) /\ Empty(s["password"])) =>
                            result = IncompleteStudioConfig(name, "password")

C2_Witness ==
    /\ pc = "raised"
    /\ Len(InputStudios) = 2
    /\ WellFormed(InputStudios[1].studio)
    /\ HasAllKeys(InputStudios[2].studio)
    /\ ~Empty(InputStudios[2].studio["email"])
    /\ result = IncompleteStudioConfig(InputStudios[2].name, "password")

----------------------------------------------------------------------------
(* C3 *)

NoneMarkedDefault ==
    /\ Len(InputStudios) >= 1
    /\ \A n \in 1..Len(InputStudios) : ~MarkedDefault(InputStudios[n].studio)

\* C3 as claimed, on documents whose entries have all four keys: with at
\* least one studio and none marked default, get_config raises the
\* no-default-studio error if `courses` is empty or absent, and otherwise
\* returns with default_studios = [].
C3_NoDefaultDecidedByCourses ==
    (/\ Finished
     /\ NoneMarkedDefault
     /\ \A n \in 1..Len(InputStudios) : HasAllKeys(InputStudios[n].studio)) =>
        IF NoCourses
        THEN pc = "raised" /\ result = NoDefaultStudioError
        ELSE pc = "returned" /\ result.val["default_studios"] = List(<<>>)

\* C3, amended: for documents with at least one studio, every studio having
\* all four keys and a non-empty email and password, and none marked
\* default: get_config raises the no-default-studio error if `courses` is
\* empty or absent, and otherwise returns with default_studios = [].
C3_ValidStudiosNoDefault ==
    (/\ Finished
     /\ NoneMarkedDefault
     /\ \A n \in 1..Len(InputStudios) : WellFormed(InputStudios[n].studio)) =>
        IF NoCourses
        THEN pc = "raised" /\ result = NoDefaultStudioError
        ELSE pc = "returned" /\ result.val["default_studios"] = List(<<>>)

C3_Witness ==
    /\ pc = "raised"
    /\ Len(InputStudios) = 2
    /\ NoneMarkedDefault
    /\ "courses" \in DOMAIN InputDoc.val
    /\ InputDoc.val["courses"] = List(<<>>)
    /\ result = NoDefaultStudioError

----------------------------------------------------------------------------
(* C4 *)

\* C4: whenever the caller supplies a document, an empty one included, no
\* candidate path is opened.
C4_SuppliedSkipsDiscovery == arg # None => opened = <<>>

----------------------------------------------------------------------------
(* C5 *)

OpenedAndParsed(path) == fs[path] \in {"empty", "mapping"}

\* C5: when no document is supplied, the paths opened are the candidates in
\* the order GIT2EDX_CONFIG_FILE (if set), ./git2edx.env.yml,
\* ~/.git2edx.env.yml, /etc/git2edx.env.yml, with none left out before the
\* last; the search stops at the first file that opens and parses, so no
\* file is opened after it, and that file's content is the document laid
\* over the settings.  A valid GIT2EDX_CONFIG_FILE is therefore the file
\* used whatever ./git2edx.env.yml holds.
C5_DiscoveryOrder ==
    arg = None =>
        /\ Len(opened) <= Len(Candidates)
        /\ \A i \in 1..Len(opened) : opened[i] = Candidates[i]
        /\ \A i \in 1..(Len(opened) - 1) : ~OpenedAndParsed(opened[i])
        /\ (pc = "update" /\ opened # <<>> /\ OpenedAndParsed(Last(opened))) =>
                yaml_config = (IF fs[Last(opened)] = "empty"
                               THEN None ELSE FileDoc(Last(opened)))
        /\ (pc \notin {"call", "discover", "raised"}) =>
                \/ opened = Candidates
                \/ opened # <<>> /\ OpenedAndParsed(Last(opened))
        /\ (/\ pc = "studios"
            /\ environ["GIT2EDX_CONFIG_FILE"] = Str(CustomPath)
            /\ fs[CustomPath] = "mapping") =>
                /\ opened = <<CustomPath>>
                /\ config["studios"] = FileDoc(CustomPath).val["studios"]
                /\ config["default_secret"] = Str("custom-secret")

C5_Witness ==
    /\ arg = None
    /\ pc = "studios"
    /\ opened = <<CustomPath, CwdPath, HomePath>>
    /\ fs[EtcPath] = "mapping"
    /\ config["studios"] = FileDoc(HomePath).val["studios"]

----------------------------------------------------------------------------
(* C6 *)

\* C6 as claimed: a file that exists and is unreadable or malformed is the
\* last one opened, and get_config ends there with the I/O or parse error.
C6_UnreadableOrMalformedAborts ==
    \A i \in 1..Len(opened) :
        fs[opened[i]] \in {"EACCES", "malformed"} =>
            /\ i = Len(opened)
            /\ pc = "raised"
            /\ result.exception \in {"IOError", "YAMLError"}

\* C6, amended: a candidate whose open fails with an I/O error, because the
\* file is missing or because it exists and cannot be read, is passed over
\* and the next candidate is tried; a candidate that opens and is malformed
\* ends get_config with the parse error, uncaught and unconverted, and no
\* later candidate is opened.  No I/O error leaves get_config.
C6_IOErrorSkippedParseErrorAborts ==
    /\ \A i \in 1..Len(opened) :
            fs[opened[i]] = "malformed" =>
                /\ i = Len(opened)
                /\ pc = "raised"
                /\ result = [exception |-> "YAMLError", message |-> opened[i]]
    /\ (/\ arg = None
        /\ pc # "call"
        /\ \A i \in 1..Len(opened) : fs[opened[i]] \in {"ENOENT", "EACCES"}
        /\ Len(opened) < Len(Candidates)) =>
            /\ pc = "discover"
            /\ yaml_config = None
    /\ pc = "raised" =>
            /\ result.exception \in {"G2EConfigException", "KeyError", "YAMLError"}
            /\ result.exception = "YAMLError" =>
                    (opened # <<>> /\ fs[Last(opened)] = "malformed")

C6_Witness ==
    /\ Len(opened) = 3
    /\ fs[opened[1]] = "EACCES"
    /\ fs[opened[2]] = "ENOENT"
    /\ fs[opened[3]] = "malformed"
    /\ pc = "raised"

----------------------------------------------------------------------------
(* C7 *)

\* The input document has a `studios` mapping, empty or not.
DocDefinesStudios ==
    /\ InputDoc.type = "dict"
    /\ "studios" \in DOMAIN InputDoc.val
    /\ InputDoc.val["studios"].type = "dict"

ReturnedNames == NamesOf(result.val["studios"].val)

\* The top-level keys the environment also gives a value to.
EnvironKeys == {"yaml_config_location", "default_secret", "course_directory"}

\* C7 as claimed: with the environment's studio email and password set and
\* a document that defines `studios`, the studios returned have exactly the
\* document's studio names and none is "ENVIRON_VARS".
C7_DefinedStudiosWin ==
    (pc = "returned" /\ EnvironHasCredentials /\ DocDefinesStudios) =>
        /\ ReturnedNames = NamesOf(InputStudios)
        /\ \A n \in 1..Len(ReturnedNames) : ReturnedNames[n] # "ENVIRON_VARS"

\* C7, amended: with the environment's studio email and password set and a
\* document that defines a non-empty `studios`, the studios returned have
\* exactly the document's studio names, in its order, and none is
\* "ENVIRON_VARS"; and every top-level key of the document that the
\* environment also sets, and `courses`, is returned with the document's
\* value.
C7_NonEmptyStudiosWin ==
    (pc = "returned" /\ EnvironHasCredentials /\ InputDoc.type = "dict") =>
        /\ InputStudios # <<>> =>
                /\ ReturnedNames = NamesOf(InputStudios)
                /\ \A n \in 1..Len(ReturnedNames) : ReturnedNames[n] # "ENVIRON_VARS"
        /\ \A key \in DOMAIN InputDoc.val \cap (EnvironKeys \cup {"courses"}) :
                result.val[key] = InputDoc.val[key]

C7_Witness ==
    /\ pc = "returned"
    /\ EnvironHasCredentials
    /\ environ["GIT2EDX_DEFAULT_SECRET"] = Str("env-secret")
    /\ Len(InputStudios) = 2
    /\ "default_secret" \in DOMAIN InputDoc.val
    /\ result.val["default_secret"] = Str("yaml-secret")

----------------------------------------------------------------------------
(* C8 *)

\* The studio entries get_config was given: the input document's, or the
\* environment's when it stands in.
GivenStudios ==
    IF InputStudios # <<>> THEN InputStudios
    ELSE <<[name |-> "ENVIRON_VARS",
            studio |-> [url |-> environ["GIT2EDX_STUDIO_URL"],
                        email |-> environ["GIT2EDX_STUDIO_EMAIL"],
                        password |-> environ["GIT2EDX_STUDIO_PASSWORD"],
                        default |-> Bool(TRUE)]]>>

\* C8: in every result returned, each studio given with an empty url has
\* url https://studio.edx.org, each studio given with a non-empty url has
\* that url, and no studio has an empty url, email or password.
C8_UrlDefaulted ==
    pc = "returned" =>
        LET out == result.val["studios"].val IN
        /\ Len(out) = Len(GivenStudios)
        /\ \A n \in 1..Len(out) :
            LET given == GivenStudios[n].studio
                s == out[n].studio
            IN  /\ out[n].name = GivenStudios[n].name
                /\ Empty(given["url"]) => s["url"] = Str("https://studio.edx.org")
                /\ ~Empty(given["url"]) => s["url"] = given["url"]
                /\ ~Empty(s["url"]) /\ ~Empty(s["email"]) /\ ~Empty(s["password"])

C8_Witness ==
    /\ pc = "returned"
    /\ Len(InputStudios) = 2
    /\ Empty(InputStudios[1].studio["url"])
    /\ ~Empty(InputStudios[2].studio["url"])

----------------------------------------------------------------------------
(* C9 *)

\* The caller's document after the call: the object get_config kept as
\* yaml_config if it was used, else the argument, which nothing refers to.
CallerDoc == IF Truthy(arg) THEN yaml_config ELSE arg

\* C9: a document the caller supplies, its studio entries included, is the
\* same after the call as before it, whether the call returns or raises.
C9_SuppliedDocUnchanged == (Finished /\ arg # None) => CallerDoc = arg

----------------------------------------------------------------------------
(* C10 *)

RECURSIVE DefaultNames(_)
\* The names of the items whose default flag is true, in order.
DefaultNames(items) ==
    IF items = <<>> THEN <<>>
    ELSE (IF items[1].studio["default"] = Bool(TRUE) THEN <<items[1].name>> ELSE <<>>)
            \o DefaultNames(Tail(items))

\* C10: in every result returned, default_studios is the names of the
\* returned studios whose default flag is true, in the mapping's order and
\* without duplicates, whatever top-level default_studios the document
\* carries; and it is empty only if `courses` is non-empty.
C10_DefaultStudiosComputed ==
    pc = "returned" =>
        LET defaults == result.val["default_studios"].val IN
        /\ defaults = DefaultNames(result.val["studios"].val)
        /\ \A i, j \in 1..Len(defaults) : defaults[i] = defaults[j] => i = j
        /\ defaults = <<>> =>
                /\ result.val["courses"].type = "list"
                /\ result.val["courses"].val # <<>>

C10_Witness ==
    /\ pc = "returned"
    /\ InputDoc.type = "dict"
    /\ "default_studios" \in DOMAIN InputDoc.val
    /\ Len(InputStudios) = 2
    /\ result.val["default_studios"] = List(<<InputStudios[2].name>>)

====
